---- MODULE Spec2Model ----
(***************************************************************************)
(* Model of src/main.py: the Biblioteca class (book catalog, student       *)
(* roster, loan ledger), its CSV persistence and the clock it reads.       *)
(*                                                                         *)
(* Dictionaries are functions with a finite domain; the iteration order of *)
(* a dict is not represented (no property below reads it), so a CSV file   *)
(* is the set of its data rows.  Text fields are kept as they are by the   *)
(* csv module; numbers are written as decimal digit strings and read back  *)
(* with int(); dates are written as 'YYYY-MM-DD' and read back as the      *)
(* midnight of that day.                                                   *)
(***************************************************************************)
EXTENDS Integers, Sequences, FiniteSets, TLC

VARIABLES
    livros,           \* self.livros      {isbn: Livro}
    alunos,           \* self.alunos      {aluno_id: Aluno}
    emprestimos,      \* self.emprestimos {isbn: {aluno_id: [data_emprestimo, data_vencimento]}}
    livrosFile,       \* livros.csv
    alunosFile,       \* alunos.csv
    emprestimosFile,  \* emprestimos.csv
    relogio,          \* the instant datetime.now() returns
    saida             \* what the last call reported (the message it printed)

vars == <<livros, alunos, emprestimos, livrosFile, alunosFile, emprestimosFile,
          relogio, saida>>

---------------------------------------------------------------------------
(* Bounds of the model *)

\* largest total_copias a book is stocked to
MaxTotal == 2
\* last day the clock reaches in SpecPrazo
MaxDiaPrazo == 10

ISBNs == {"B1", "B2"}
AlunoIds == {"S1", "S2"}
\* (titulo, autor) pairs typed at the prompt
Obras == {<<"T1", "A1">>, <<"T2", "A2">>}
Nomes == {"N1", "N2"}
\* times of day the clock is sampled at: midnight exactly, and noon
Horas == {0, 12}

DIAS_EMPRESTIMO == 7

---------------------------------------------------------------------------
(* Dictionaries *)

Vazio == [k \in {} |-> k]

Put(d, k, v) == [x \in (DOMAIN d) \cup {k} |-> IF x = k THEN v ELSE d[x]]

Del(d, k) == [x \in (DOMAIN d) \ {k} |-> d[x]]

---------------------------------------------------------------------------
(* Numbers as text: str(n) and int(s) *)

DIGITOS == <<"0", "1", "2", "3", "4", "5", "6", "7", "8", "9">>

Base == Len(DIGITOS)

DigitoDe(c) == (CHOOSE i \in 1..Len(DIGITOS) : DIGITOS[i] = c) - 1

RECURSIVE PyStr(_)
PyStr(n) == IF n < 0 THEN <<"-">> \o PyStr(0 - n)
            ELSE IF n < Base THEN <<DIGITOS[n + 1]>>
            ELSE PyStr(n \div Base) \o <<DIGITOS[(n % Base) + 1]>>

RECURSIVE PyInt(_)
PyInt(s) == IF Len(s) = 0 THEN 0
            ELSE IF s[1] = "-" THEN 0 - PyInt(Tail(s))
            ELSE PyInt(SubSeq(s, 1, Len(s) - 1)) * Base + DigitoDe(s[Len(s)])

\* n written with at least w digits, zero padded (%Y, %m, %d)
RECURSIVE Pad(_, _)
Pad(n, w) == IF Len(PyStr(n)) >= w THEN PyStr(n) ELSE <<"0">> \o Pad(n, w - 1)

---------------------------------------------------------------------------
(* The clock and dates.  An instant is [dia, hora]: the number of the day  *)
(* counted from Epoca and the time of day.                                 *)

Epoca == [ano |-> 2024, mes |-> 12, dia |-> 28]

Bissexto(ano) == (ano % 4 = 0 /\ ano % 100 # 0) \/ ano % 400 = 0

DiasNoMes(ano, mes) ==
    IF mes = 2 THEN (IF Bissexto(ano) THEN 29 ELSE 28)
    ELSE IF mes \in {4, 6, 9, 11} THEN 30 ELSE 31

ProximaData(d) ==
    IF d.dia < DiasNoMes(d.ano, d.mes) THEN [d EXCEPT !.dia = d.dia + 1]
    ELSE IF d.mes < 12 THEN [ano |-> d.ano, mes |-> d.mes + 1, dia |-> 1]
    ELSE [ano |-> d.ano + 1, mes |-> 1, dia |-> 1]

RECURSIVE DataDoDia(_)
DataDoDia(n) == IF n = 0 THEN Epoca ELSE ProximaData(DataDoDia(n - 1))

\* the days a stored date can name
Horizonte == MaxDiaPrazo + DIAS_EMPRESTIMO

\* datetime.strftime('%Y-%m-%d'): the time of day is dropped
strftime(t) ==
    LET d == DataDoDia(t.dia)
    IN  Pad(d.ano, 4) \o <<"-">> \o Pad(d.mes, 2) \o <<"-">> \o Pad(d.dia, 2)

Calendario == [n \in 0..Horizonte |-> DataDoDia(n)]

\* datetime.strptime(s, '%Y-%m-%d'): midnight of the day written in s
strptime(s) ==
    LET d == [ano |-> PyInt(SubSeq(s, 1, 4)),
              mes |-> PyInt(SubSeq(s, 6, 7)),
              dia |-> PyInt(SubSeq(s, 9, 10))]
    IN  [dia |-> CHOOSE n \in 0..Horizonte : Calendario[n] = d, hora |-> 0]

\* t + timedelta(days=n)
MaisDias(t, n) == [t EXCEPT !.dia = t.dia + n]

\* a > b on datetimes
Depois(a, b) == a.dia > b.dia \/ (a.dia = b.dia /\ a.hora > b.hora)

\* (a - b).days : whole days, rounded down
DiasEntre(a, b) == IF a.hora >= b.hora THEN a.dia - b.dia ELSE a.dia - b.dia - 1

---------------------------------------------------------------------------
(* Model classes *)

\* Livro.__init__ ; total_copias and copias_disponiveis have been through int()
Livro(titulo, autor, isbn, total_copias, copias_disponiveis) ==
    [titulo |-> titulo, autor |-> autor, isbn |-> isbn,
     total_copias |-> total_copias, copias_disponiveis |-> copias_disponiveis]

\* Aluno.__init__
Aluno(aluno_id, nome, banido) ==
    [aluno_id |-> aluno_id, nome |-> nome, banido |-> banido]

---------------------------------------------------------------------------
(* Persistence.  A file is [existe, linhas]: whether it exists, and its    *)
(* data rows (the header row is written and skipped, never stored).        *)

SemArquivo == [existe |-> FALSE, linhas |-> {}]

\* LinhaLivro writing total_copias in both count columns
LinhaLivroSoTotal(l) ==
    [titulo |-> l.titulo, autor |-> l.autor, isbn |-> l.isbn,
     total_copias |-> PyStr(l.total_copias),
     copias_disponiveis |-> PyStr(l.total_copias)]

\* DictWriter.writerows of Livro.to_dict(): every value is written as text
LinhaLivro(l) ==
    [titulo |-> l.titulo, autor |-> l.autor, isbn |-> l.isbn,
     total_copias |-> PyStr(l.total_copias),
     copias_disponiveis |-> PyStr(l.copias_disponiveis)]

\* DictWriter.writerows of Aluno.to_dict()
LinhaAluno(a) == [aluno_id |-> a.aluno_id, nome |-> a.nome, banido |-> a.banido]

\* the rows of emprestimos_data
LinhasEmprestimos(e) ==
    UNION {{<<isbn, aluno_id, e[isbn][aluno_id][1], e[isbn][aluno_id][2]>> :
               aluno_id \in DOMAIN e[isbn]} : isbn \in DOMAIN e}

\* Livro(**row): the constructor applies int() to the two counts
LivroDaLinha(row) ==
    Livro(row.titulo, row.autor, row.isbn,
          PyInt(row.total_copias), PyInt(row.copias_disponiveis))

\* Aluno(**row)
AlunoDaLinha(row) == Aluno(row.aluno_id, row.nome, row.banido)

\* the three dictionaries _carregar_dados builds, starting from empty ones
CarregarLivros(f) ==
    IF f.existe
    THEN [isbn \in {r.isbn : r \in f.linhas} |->
             LivroDaLinha(CHOOSE r \in f.linhas : r.isbn = isbn)]
    ELSE Vazio

CarregarAlunos(f) ==
    IF f.existe
    THEN [aluno_id \in {r.aluno_id : r \in f.linhas} |->
             AlunoDaLinha(CHOOSE r \in f.linhas : r.aluno_id = aluno_id)]
    ELSE Vazio

CarregarEmprestimos(f) ==
    IF f.existe
    THEN [isbn \in {r[1] : r \in f.linhas} |->
             [aluno_id \in {r[2] : r \in {q \in f.linhas : q[1] = isbn}} |->
                 LET r == CHOOSE q \in f.linhas : q[1] = isbn /\ q[2] = aluno_id
                 IN  <<r[3], r[4]>>]]
    ELSE Vazio

\* Biblioteca.__init__ of a new session: empty dictionaries, then _carregar_dados
carregar_dados ==
    /\ livros' = CarregarLivros(livrosFile')
    /\ alunos' = CarregarAlunos(alunosFile')
    /\ emprestimos' = CarregarEmprestimos(emprestimosFile')

\* what salvar_dados leaves in each file, given the file f as it was:
\* livros.csv and alunos.csv are rewritten only when the dictionary is not
\* empty, emprestimos.csv always
ArquivoLivros(l, f) ==
    IF DOMAIN l # {}
    THEN [existe |-> TRUE, linhas |-> {LinhaLivro(l[k]) : k \in DOMAIN l}]
    ELSE f

ArquivoAlunos(a, f) ==
    IF DOMAIN a # {}
    THEN [existe |-> TRUE, linhas |-> {LinhaAluno(a[k]) : k \in DOMAIN a}]
    ELSE f

ArquivoEmprestimos(e, f) == [existe |-> TRUE, linhas |-> LinhasEmprestimos(e)]

\* salvar_dados rewriting emprestimos.csv, like the other two files, only
\* when the dictionary is not empty
salvar_dados_nao_vazios(l, a, e) ==
    /\ livrosFile' = ArquivoLivros(l, livrosFile)
    /\ alunosFile' = ArquivoAlunos(a, alunosFile)
    /\ emprestimosFile' = IF DOMAIN e # {} THEN ArquivoEmprestimos(e, emprestimosFile)
                          ELSE emprestimosFile

\* salvar_dados on the dictionaries l, a, e
salvar_dados(l, a, e) ==
    /\ livrosFile' = ArquivoLivros(l, livrosFile)
    /\ alunosFile' = ArquivoAlunos(a, alunosFile)
    /\ emprestimosFile' = ArquivoEmprestimos(e, emprestimosFile)

---------------------------------------------------------------------------
(* What a call reports.  res is "ok" or the kind of the refusal; atraso    *)
(* and dias are the lateness a return reports; vencimento is the due date  *)
(* an issue prints; lista is what a listing prints.                        *)

Msg(op, isbn, aluno_id, res) ==
    [op |-> op, isbn |-> isbn, aluno_id |-> aluno_id, res |-> res,
     atraso |-> FALSE, dias |-> 0, vencimento |-> <<>>, lista |-> {}]

\* the open loan of (isbn, aluno_id) exists
TemEmprestimo(e, isbn, aluno_id) == isbn \in DOMAIN e /\ aluno_id \in DOMAIN e[isbn]

---------------------------------------------------------------------------
(* Operations of Biblioteca *)

\* adicionar_livro replacing the record of an existing isbn by a new Livro
adicionar_livro_sobrescreve(titulo, autor, isbn, copias) ==
    LET l2 == IF isbn \in DOMAIN livros
              THEN [livros EXCEPT ![isbn] =
                       Livro(titulo, autor, isbn, @.total_copias + copias,
                             @.copias_disponiveis + copias)]
              ELSE Put(livros, isbn, Livro(titulo, autor, isbn, copias, copias))
    IN  /\ livros' = l2
        /\ UNCHANGED <<alunos, emprestimos, relogio>>
        /\ salvar_dados(l2, alunos, emprestimos)
        /\ saida' = Msg("adicionar_livro", isbn, "", "ok")

\* adicionar_livro without line 121: a restock raises total_copias alone
adicionar_livro_so_total(titulo, autor, isbn, copias) ==
    LET l2 == IF isbn \in DOMAIN livros
              THEN [livros EXCEPT ![isbn].total_copias = @ + copias]
              ELSE Put(livros, isbn, Livro(titulo, autor, isbn, copias, copias))
    IN  /\ livros' = l2
        /\ UNCHANGED <<alunos, emprestimos, relogio>>
        /\ salvar_dados(l2, alunos, emprestimos)
        /\ saida' = Msg("adicionar_livro", isbn, "", "ok")

adicionar_livro(titulo, autor, isbn, copias) ==
    LET l2 == IF isbn \in DOMAIN livros
              THEN [livros EXCEPT ![isbn].total_copias = @ + copias,
                                  ![isbn].copias_disponiveis = @ + copias]
              ELSE Put(livros, isbn, Livro(titulo, autor, isbn, copias, copias))
    IN  /\ livros' = l2
        /\ UNCHANGED <<alunos, emprestimos, relogio>>
        /\ salvar_dados(l2, alunos, emprestimos)
        /\ saida' = Msg("adicionar_livro", isbn, "", "ok")

listar_livros ==
    /\ UNCHANGED <<livros, alunos, emprestimos, livrosFile, alunosFile,
                   emprestimosFile, relogio>>
    /\ saida' = [Msg("listar_livros", "", "", "ok") EXCEPT
                    !.lista = {livros[k] : k \in DOMAIN livros}]

\* adicionar_aluno without the return of line 144: the record is replaced
adicionar_aluno_sobrescreve(aluno_id, nome) ==
    LET a2 == Put(alunos, aluno_id, Aluno(aluno_id, nome, "Não"))
    IN  /\ alunos' = a2
        /\ UNCHANGED <<livros, emprestimos, relogio>>
        /\ salvar_dados(livros, a2, emprestimos)
        /\ saida' = Msg("adicionar_aluno", "", aluno_id,
                        IF aluno_id \in DOMAIN alunos THEN "DuplicateIdentifier" ELSE "ok")

adicionar_aluno(aluno_id, nome) ==
    IF aluno_id \in DOMAIN alunos
    THEN /\ UNCHANGED <<livros, alunos, emprestimos, livrosFile, alunosFile,
                        emprestimosFile, relogio>>
         /\ saida' = Msg("adicionar_aluno", "", aluno_id, "DuplicateIdentifier")
    ELSE LET a2 == Put(alunos, aluno_id, Aluno(aluno_id, nome, "Não"))
         IN  /\ alunos' = a2
             /\ UNCHANGED <<livros, emprestimos, relogio>>
             /\ salvar_dados(livros, a2, emprestimos)
             /\ saida' = Msg("adicionar_aluno", "", aluno_id, "ok")

listar_alunos ==
    /\ UNCHANGED <<livros, alunos, emprestimos, livrosFile, alunosFile,
                   emprestimosFile, relogio>>
    /\ saida' = [Msg("listar_alunos", "", "", "ok") EXCEPT
                    !.lista = {alunos[k] : k \in DOMAIN alunos}]

\* tem_emprestimo looking for aluno_id among the keys of self.emprestimos
tem_emprestimo_nas_chaves(aluno_id) == aluno_id \in DOMAIN emprestimos

\* any(aluno_id in alunos for alunos in self.emprestimos.values())
tem_emprestimo(aluno_id) ==
    \E isbn \in DOMAIN emprestimos : aluno_id \in DOMAIN emprestimos[isbn]

\* banir_aluno without the return of line 170: the refusal is printed and the
\* student is banned all the same
banir_aluno_sem_return(aluno_id) ==
    IF aluno_id \notin DOMAIN alunos
    THEN /\ UNCHANGED <<livros, alunos, emprestimos, livrosFile, alunosFile,
                        emprestimosFile, relogio>>
         /\ saida' = Msg("banir_aluno", "", aluno_id, "NotFound")
    ELSE LET a2 == [alunos EXCEPT ![aluno_id].banido = "Sim"]
         IN  /\ alunos' = a2
             /\ UNCHANGED <<livros, emprestimos, relogio>>
             /\ salvar_dados(livros, a2, emprestimos)
             /\ saida' = Msg("banir_aluno", "", aluno_id,
                             IF tem_emprestimo(aluno_id) THEN "HasOpenLoans" ELSE "ok")

banir_aluno(aluno_id) ==
    IF aluno_id \notin DOMAIN alunos
    THEN /\ UNCHANGED <<livros, alunos, emprestimos, livrosFile, alunosFile,
                        emprestimosFile, relogio>>
         /\ saida' = Msg("banir_aluno", "", aluno_id, "NotFound")
    ELSE IF tem_emprestimo(aluno_id)
             THEN /\ UNCHANGED <<livros, alunos, emprestimos, livrosFile, alunosFile,
                                 emprestimosFile, relogio>>
                  /\ saida' = Msg("banir_aluno", "", aluno_id, "HasOpenLoans")
             ELSE LET a2 == [alunos EXCEPT ![aluno_id].banido = "Sim"]
                  IN  /\ alunos' = a2
                      /\ UNCHANGED <<livros, emprestimos, relogio>>
                      /\ salvar_dados(livros, a2, emprestimos)
                      /\ saida' = Msg("banir_aluno", "", aluno_id, "ok")

\* desbanir_aluno with the open-loan check of banir_aluno copied into it
desbanir_aluno_sem_emprestimos(aluno_id) ==
    IF aluno_id \notin DOMAIN alunos
    THEN /\ UNCHANGED <<livros, alunos, emprestimos, livrosFile, alunosFile,
                        emprestimosFile, relogio>>
         /\ saida' = Msg("desbanir_aluno", "", aluno_id, "NotFound")
    ELSE IF tem_emprestimo(aluno_id)
    THEN /\ UNCHANGED <<livros, alunos, emprestimos, livrosFile, alunosFile,
                        emprestimosFile, relogio>>
         /\ saida' = Msg("desbanir_aluno", "", aluno_id, "HasOpenLoans")
    ELSE LET a2 == [alunos EXCEPT ![aluno_id].banido = "Não"]
         IN  /\ alunos' = a2
             /\ UNCHANGED <<livros, emprestimos, relogio>>
             /\ salvar_dados(livros, a2, emprestimos)
             /\ saida' = Msg("desbanir_aluno", "", aluno_id, "ok")

desbanir_aluno(aluno_id) ==
    IF aluno_id \notin DOMAIN alunos
    THEN /\ UNCHANGED <<livros, alunos, emprestimos, livrosFile, alunosFile,
                        emprestimosFile, relogio>>
         /\ saida' = Msg("desbanir_aluno", "", aluno_id, "NotFound")
    ELSE LET a2 == [alunos EXCEPT ![aluno_id].banido = "Não"]
         IN  /\ alunos' = a2
             /\ UNCHANGED <<livros, emprestimos, relogio>>
             /\ salvar_dados(livros, a2, emprestimos)
             /\ saida' = Msg("desbanir_aluno", "", aluno_id, "ok")

\* Validar without the check of copias_disponiveis
ValidarSemEstoque(isbn, aluno_id) ==
    IF isbn \notin DOMAIN livros \/ aluno_id \notin DOMAIN alunos THEN "NotFound"
    ELSE IF alunos[aluno_id].banido = "Sim" THEN "BorrowerSuspended"
    ELSE IF TemEmprestimo(emprestimos, isbn, aluno_id) THEN "AlreadyHolding"
    ELSE "ok"

\* Validar with the last two checks in the other order
ValidarRepetidoAntes(isbn, aluno_id) ==
    IF isbn \notin DOMAIN livros \/ aluno_id \notin DOMAIN alunos THEN "NotFound"
    ELSE IF alunos[aluno_id].banido = "Sim" THEN "BorrowerSuspended"
    ELSE IF TemEmprestimo(emprestimos, isbn, aluno_id) THEN "AlreadyHolding"
    ELSE IF livros[isbn].copias_disponiveis <= 0 THEN "NoCopiesAvailable"
    ELSE "ok"

\* Validar with the check of copias_disponiveis before the check of banido
ValidarEstoqueAntes(isbn, aluno_id) ==
    IF isbn \notin DOMAIN livros \/ aluno_id \notin DOMAIN alunos THEN "NotFound"
    ELSE IF livros[isbn].copias_disponiveis <= 0 THEN "NoCopiesAvailable"
    ELSE IF alunos[aluno_id].banido = "Sim" THEN "BorrowerSuspended"
    ELSE IF TemEmprestimo(emprestimos, isbn, aluno_id) THEN "AlreadyHolding"
    ELSE "ok"

\* Validar without the check of an existing loan of the pair
ValidarSemRepetido(isbn, aluno_id) ==
    IF isbn \notin DOMAIN livros \/ aluno_id \notin DOMAIN alunos THEN "NotFound"
    ELSE IF alunos[aluno_id].banido = "Sim" THEN "BorrowerSuspended"
    ELSE IF livros[isbn].copias_disponiveis <= 0 THEN "NoCopiesAvailable"
    ELSE "ok"

\* Validar without the check of banido
ValidarSemBanido(isbn, aluno_id) ==
    IF isbn \notin DOMAIN livros \/ aluno_id \notin DOMAIN alunos THEN "NotFound"
    ELSE IF livros[isbn].copias_disponiveis <= 0 THEN "NoCopiesAvailable"
    ELSE IF TemEmprestimo(emprestimos, isbn, aluno_id) THEN "AlreadyHolding"
    ELSE "ok"

\* Validar with "not aluno" alone in the first check
ValidarSemLivro(isbn, aluno_id) ==
    IF aluno_id \notin DOMAIN alunos THEN "NotFound"
    ELSE IF alunos[aluno_id].banido = "Sim" THEN "BorrowerSuspended"
    ELSE IF isbn \in DOMAIN livros /\ livros[isbn].copias_disponiveis <= 0
         THEN "NoCopiesAvailable"
    ELSE IF TemEmprestimo(emprestimos, isbn, aluno_id) THEN "AlreadyHolding"
    ELSE "ok"

\* the refusal emprestar_livro reports for (isbn, aluno_id), or "ok"
Validar(isbn, aluno_id) ==
    IF isbn \notin DOMAIN livros \/ aluno_id \notin DOMAIN alunos THEN "NotFound"
    ELSE IF alunos[aluno_id].banido = "Sim" THEN "BorrowerSuspended"
    ELSE IF livros[isbn].copias_disponiveis <= 0 THEN "NoCopiesAvailable"
    ELSE IF TemEmprestimo(emprestimos, isbn, aluno_id) THEN "AlreadyHolding"
    ELSE "ok"

\* agora2 is the second reading of the clock (line 215); the first (line 214)
\* is relogio
emprestar_livro(isbn, aluno_id, agora2) ==
    IF Validar(isbn, aluno_id) # "ok"
    THEN /\ UNCHANGED <<livros, alunos, emprestimos, livrosFile, alunosFile,
                        emprestimosFile, relogio>>
         /\ saida' = Msg("emprestar_livro", isbn, aluno_id, Validar(isbn, aluno_id))
    ELSE LET l2 == [livros EXCEPT ![isbn].copias_disponiveis = @ - 1]
             data_emprestimo == strftime(relogio)
             data_vencimento == strftime(MaisDias(agora2, DIAS_EMPRESTIMO))
             doLivro == IF isbn \in DOMAIN emprestimos THEN emprestimos[isbn] ELSE Vazio
             e2 == Put(emprestimos, isbn,
                       Put(doLivro, aluno_id, <<data_emprestimo, data_vencimento>>))
         IN  /\ livros' = l2
             /\ emprestimos' = e2
             /\ relogio' = agora2
             /\ UNCHANGED alunos
             /\ salvar_dados(l2, alunos, e2)
             /\ saida' = [Msg("emprestar_livro", isbn, aluno_id, "ok") EXCEPT
                             !.vencimento = data_vencimento]

\* an AttributeError on a None livro or aluno is not caught by the menu loop:
\* the process dies without saving and the next session loads the files
morrer(op, isbn, aluno_id) ==
    /\ UNCHANGED <<livrosFile, alunosFile, emprestimosFile, relogio>>
    /\ carregar_dados
    /\ saida' = Msg(op, isbn, aluno_id, "AttributeError")

\* Devolvido putting every copy back on the shelf
DevolvidoTudo(l, isbn) == [l EXCEPT ![isbn].copias_disponiveis = l[isbn].total_copias]

\* Devolvido putting one copy of every book back on the shelf
DevolvidoTodos(l, isbn) ==
    [i \in DOMAIN l |-> [l[i] EXCEPT !.copias_disponiveis = @ + 1]]

\* livro.copias_disponiveis += 1
Devolvido(l, isbn) == [l EXCEPT ![isbn].copias_disponiveis = @ + 1]

devolver_livro(isbn, aluno_id) ==
    IF ~TemEmprestimo(emprestimos, isbn, aluno_id)
    THEN /\ UNCHANGED <<livros, alunos, emprestimos, livrosFile, alunosFile,
                        emprestimosFile, relogio>>
         /\ saida' = Msg("devolver_livro", isbn, aluno_id, "NoSuchLoan")
    ELSE LET data_vencimento == strptime(emprestimos[isbn][aluno_id][2])
             data_atual == relogio
             atrasado == Depois(data_atual, data_vencimento)
             dias_atraso == IF atrasado THEN DiasEntre(data_atual, data_vencimento) ELSE 0
             doLivro == Del(emprestimos[isbn], aluno_id)
             e2 == IF DOMAIN doLivro = {} THEN Del(emprestimos, isbn)
                   ELSE [emprestimos EXCEPT ![isbn] = doLivro]
         IN  IF isbn \notin DOMAIN livros \/ aluno_id \notin DOMAIN alunos
             THEN morrer("devolver_livro", isbn, aluno_id)
             ELSE LET l2 == Devolvido(livros, isbn)
                  IN  /\ emprestimos' = e2
                      /\ livros' = l2
                      /\ UNCHANGED <<alunos, relogio>>
                      /\ salvar_dados(l2, alunos, e2)
                      /\ saida' = [Msg("devolver_livro", isbn, aluno_id, "ok") EXCEPT
                                      !.atraso = atrasado, !.dias = dias_atraso]

\* the (isbn, aluno_id) pairs of the ledger
Pares(e) == UNION {{<<isbn, aluno_id>> : aluno_id \in DOMAIN e[isbn]} : isbn \in DOMAIN e}

\* LinhaRelatorio comparing calendar days instead of instants
LinhaRelatorioPorDia(isbn, aluno_id, datas, agora1, agora2) ==
    LET data_vencimento_dt == strptime(datas[2])
        atrasado == agora1.dia > data_vencimento_dt.dia
    IN  [isbn |-> isbn, aluno_id |-> aluno_id, vencimento |-> datas[2],
         atraso |-> atrasado,
         dias |-> IF atrasado THEN DiasEntre(agora2, data_vencimento_dt) ELSE 0]

\* the line listar_emprestimos prints for one loan whose two readings of the
\* clock (lines 273 and 274) are agora1 and agora2
LinhaRelatorio(isbn, aluno_id, datas, agora1, agora2) ==
    LET data_vencimento_dt == strptime(datas[2])
        atrasado == Depois(agora1, data_vencimento_dt)
    IN  [isbn |-> isbn, aluno_id |-> aluno_id, vencimento |-> datas[2],
         atraso |-> atrasado,
         dias |-> IF atrasado THEN DiasEntre(agora2, data_vencimento_dt) ELSE 0]

\* The clock moves at most once, from relogio to agora2, while the report is
\* printed: the loans of `depois` are read after the move, the loan of `entre`
\* (at most one) has its first reading before and its second after it.
listar_emprestimos(agora2, depois, entre) ==
    IF DOMAIN emprestimos = {}
    THEN /\ UNCHANGED <<livros, alunos, emprestimos, livrosFile, alunosFile,
                        emprestimosFile, relogio>>
         /\ saida' = Msg("listar_emprestimos", "", "", "ok")
    ELSE IF \E p \in Pares(emprestimos) : p[1] \notin DOMAIN livros \/ p[2] \notin DOMAIN alunos
    THEN morrer("listar_emprestimos", "", "")
    ELSE /\ UNCHANGED <<livros, alunos, emprestimos, livrosFile, alunosFile,
                        emprestimosFile>>
         /\ relogio' = IF depois \cup entre = {} THEN relogio ELSE agora2
         /\ saida' = [Msg("listar_emprestimos", "", "", "ok") EXCEPT
                !.lista = {LinhaRelatorio(p[1], p[2], emprestimos[p[1]][p[2]],
                                          IF p \in depois THEN agora2 ELSE relogio,
                                          IF p \in depois \cup entre THEN agora2 ELSE relogio) :
                           p \in Pares(emprestimos)}]

\* menu option 4: salvar_dados, then the process ends; the next session loads
menu_sair ==
    /\ salvar_dados(livros, alunos, emprestimos)
    /\ carregar_dados
    /\ UNCHANGED relogio
    /\ saida' = Msg("sair", "", "", "ok")

\* the process is stopped between two operations; the next session loads
nova_sessao ==
    /\ UNCHANGED <<livrosFile, alunosFile, emprestimosFile, relogio>>
    /\ carregar_dados
    /\ saida' = Msg("__init__", "", "", "ok")

\* time passes while the menu waits for input
esperar(agora) ==
    /\ Depois(agora, relogio)
    /\ relogio' = agora
    /\ UNCHANGED <<livros, alunos, emprestimos, livrosFile, alunosFile, emprestimosFile>>
    /\ saida' = Msg("input", "", "", "ok")

---------------------------------------------------------------------------
(* Specifications *)

Init ==
    /\ livros = Vazio
    /\ alunos = Vazio
    /\ emprestimos = Vazio
    /\ livrosFile = SemArquivo
    /\ alunosFile = SemArquivo
    /\ emprestimosFile = SemArquivo
    /\ relogio = [dia |-> 0, hora |-> 0]
    /\ saida = Msg("__init__", "", "", "ok")

Instantes(maxDia) == [dia : 0..maxDia, hora : Horas]

\* the instant of `instantes` that follows relogio, if there is one
Seguinte(instantes) ==
    {t \in instantes : /\ Depois(t, relogio)
                       /\ \A u \in instantes : Depois(u, relogio) => ~Depois(t, u)}

\* what a later reading of the clock within the same call can return: a call
\* is short, the clock is seen to move by at most one instant while it runs
Adiante(instantes) == {relogio} \cup Seguinte(instantes)

\* copies typed at the prompt: positive (lines 328-329), and within the bound
Copias(isbn) ==
    {c \in 1..MaxTotal :
        c + (IF isbn \in DOMAIN livros THEN livros[isbn].total_copias ELSE 0) <= MaxTotal}

\* one step of a session whose inputs are drawn from the given sets
Passo(isbns, ids, obras, nomes, instantes) ==
    \/ \E o \in obras, isbn \in isbns : \E c \in Copias(isbn) :
           adicionar_livro(o[1], o[2], isbn, c)
    \/ listar_livros
    \/ \E aluno_id \in ids, nome \in nomes : adicionar_aluno(aluno_id, nome)
    \/ listar_alunos
    \/ \E aluno_id \in ids : banir_aluno(aluno_id)
    \/ \E aluno_id \in ids : desbanir_aluno(aluno_id)
    \/ \E isbn \in isbns, aluno_id \in ids, agora2 \in Adiante(instantes) :
           emprestar_livro(isbn, aluno_id, agora2)
    \/ \E isbn \in isbns, aluno_id \in ids : devolver_livro(isbn, aluno_id)
    \/ \E agora2 \in Adiante(instantes), depois \in SUBSET Pares(emprestimos) :
           \E entre \in {x \in SUBSET (Pares(emprestimos) \ depois) : Cardinality(x) <= 1} :
               listar_emprestimos(agora2, depois, entre)
    \/ menu_sair
    \/ nova_sessao
    \/ \E agora \in Seguinte(instantes) : esperar(agora)

\* the instants of Spec: midnight and noon of day 0, and noon of the day a
\* loan of day 0 is due
InstantesSpec == Instantes(0) \cup {[dia |-> DIAS_EMPRESTIMO, hora |-> 12]}

\* two books and two students
Next == Passo(ISBNs, AlunoIds, {<<"T1", "A1">>}, {"N1"}, InstantesSpec)

Spec == Init /\ [][Next]_vars

\* one book and one student over a longer stretch of days
NextPrazo == Passo({"B1"}, {"S1"}, Obras, Nomes, Instantes(MaxDiaPrazo))

SpecPrazo == Init /\ [][NextPrazo]_vars

---------------------------------------------------------------------------
(* A session that stops inside salvar_dados.  The three files are opened   *)
(* for writing one after the other (lines 87, 96, 107); open(..., 'w')     *)
(* empties the file and the rows reach it when the with block closes it.   *)

\* where salvar_dados can stop, in the order it reaches them
Pontos == {"inicio", "livros_aberto", "livros_escrito",
           "alunos_aberto", "alunos_escrito", "emprestimos_aberto"}

\* a file that was opened for writing and not written
Truncado == [existe |-> TRUE, linhas |-> {}]

LivrosAte(ponto, l) ==
    IF ponto = "inicio" \/ DOMAIN l = {} THEN livrosFile
    ELSE IF ponto = "livros_aberto" THEN Truncado
    ELSE ArquivoLivros(l, livrosFile)

AlunosAte(ponto, a) ==
    IF ponto \in {"inicio", "livros_aberto", "livros_escrito"} \/ DOMAIN a = {}
    THEN alunosFile
    ELSE IF ponto = "alunos_aberto" THEN Truncado
    ELSE ArquivoAlunos(a, alunosFile)

EmprestimosAte(ponto, e) ==
    IF ponto = "emprestimos_aberto" THEN Truncado ELSE emprestimosFile

\* the call op has changed the dictionaries to l, a, e; salvar_dados stops at
\* ponto, the process ends and the next session loads the files
interrompido(op, isbn, aluno_id, l, a, e, agora, ponto) ==
    /\ livrosFile' = LivrosAte(ponto, l)
    /\ alunosFile' = AlunosAte(ponto, a)
    /\ emprestimosFile' = EmprestimosAte(ponto, e)
    /\ carregar_dados
    /\ relogio' = agora
    /\ saida' = Msg(op, isbn, aluno_id, "Interrupted")

adicionar_livro_interrompido(titulo, autor, isbn, copias, ponto) ==
    LET l2 == IF isbn \in DOMAIN livros
              THEN [livros EXCEPT ![isbn].total_copias = @ + copias,
                                  ![isbn].copias_disponiveis = @ + copias]
              ELSE Put(livros, isbn, Livro(titulo, autor, isbn, copias, copias))
    IN  interrompido("adicionar_livro", isbn, "", l2, alunos, emprestimos, relogio, ponto)

adicionar_aluno_interrompido(aluno_id, nome, ponto) ==
    /\ aluno_id \notin DOMAIN alunos
    /\ interrompido("adicionar_aluno", "", aluno_id, livros,
                    Put(alunos, aluno_id, Aluno(aluno_id, nome, "Não")),
                    emprestimos, relogio, ponto)

banir_aluno_interrompido(aluno_id, ponto) ==
    /\ aluno_id \in DOMAIN alunos
    /\ ~tem_emprestimo(aluno_id)
    /\ interrompido("banir_aluno", "", aluno_id, livros,
                    [alunos EXCEPT ![aluno_id].banido = "Sim"],
                    emprestimos, relogio, ponto)

desbanir_aluno_interrompido(aluno_id, ponto) ==
    /\ aluno_id \in DOMAIN alunos
    /\ interrompido("desbanir_aluno", "", aluno_id, livros,
                    [alunos EXCEPT ![aluno_id].banido = "Não"],
                    emprestimos, relogio, ponto)

emprestar_livro_interrompido(isbn, aluno_id, agora2, ponto) ==
    /\ Validar(isbn, aluno_id) = "ok"
    /\ LET l2 == [livros EXCEPT ![isbn].copias_disponiveis = @ - 1]
           doLivro == IF isbn \in DOMAIN emprestimos THEN emprestimos[isbn] ELSE Vazio
           e2 == Put(emprestimos, isbn,
                     Put(doLivro, aluno_id,
                         <<strftime(relogio), strftime(MaisDias(agora2, DIAS_EMPRESTIMO))>>))
       IN  interrompido("emprestar_livro", isbn, aluno_id, l2, alunos, e2, agora2, ponto)

devolver_livro_interrompido(isbn, aluno_id, ponto) ==
    /\ TemEmprestimo(emprestimos, isbn, aluno_id)
    /\ isbn \in DOMAIN livros
    /\ aluno_id \in DOMAIN alunos
    /\ LET doLivro == Del(emprestimos[isbn], aluno_id)
           e2 == IF DOMAIN doLivro = {} THEN Del(emprestimos, isbn)
                 ELSE [emprestimos EXCEPT ![isbn] = doLivro]
       IN  interrompido("devolver_livro", isbn, aluno_id, Devolvido(livros, isbn),
                        alunos, e2, relogio, ponto)

\* one step of a session that stops inside the salvar_dados of a call
Queda(isbns, ids, obras, nomes, instantes) ==
    \/ \E o \in obras, isbn \in isbns, ponto \in Pontos : \E c \in Copias(isbn) :
           adicionar_livro_interrompido(o[1], o[2], isbn, c, ponto)
    \/ \E aluno_id \in ids, nome \in nomes, ponto \in Pontos :
           adicionar_aluno_interrompido(aluno_id, nome, ponto)
    \/ \E aluno_id \in ids, ponto \in Pontos : banir_aluno_interrompido(aluno_id, ponto)
    \/ \E aluno_id \in ids, ponto \in Pontos : desbanir_aluno_interrompido(aluno_id, ponto)
    \/ \E isbn \in isbns, aluno_id \in ids, agora2 \in Adiante(instantes), ponto \in Pontos :
           emprestar_livro_interrompido(isbn, aluno_id, agora2, ponto)
    \/ \E isbn \in isbns, aluno_id \in ids, ponto \in Pontos :
           \* a return whose loan stays on file can be repeated: within the bound
           /\ isbn \in DOMAIN livros => livros[isbn].copias_disponiveis < MaxTotal
           /\ devolver_livro_interrompido(isbn, aluno_id, ponto)

\* one book and one student within one day, in sessions that can stop while
\* they save
NextQueda ==
    \/ Passo({"B1"}, {"S1"}, {<<"T1", "A1">>}, {"N1"}, Instantes(0))
    \/ Queda({"B1"}, {"S1"}, {<<"T1", "A1">>}, {"N1"}, Instantes(0))

SpecQueda == Init /\ [][NextQueda]_vars

---------------------------------------------------------------------------
(* Properties *)

\* the last call was op and it succeeded
Feito(op) == saida.op = op /\ saida.res = "ok"

\* C1: every book of the catalog has 0 <= copias_disponiveis <= total_copias,
\* in every state reachable from the empty library.
C1_DisponiveisDentroDoTotal ==
    \A isbn \in DOMAIN livros :
        /\ 0 <= livros[isbn].copias_disponiveis
        /\ livros[isbn].copias_disponiveis <= livros[isbn].total_copias

\* a loan has just taken the last copy of a book that was restocked before
C1_Witness ==
    /\ Feito("emprestar_livro")
    /\ livros[saida.isbn].copias_disponiveis = 0
    /\ livros[saida.isbn].total_copias = MaxTotal

\* C2 as stated: an Issue of a pair that already has an open loan is refused
\* with AlreadyHolding, whatever the book's copy count.
C2_Original ==
    [][(/\ saida'.op = "emprestar_livro"
        /\ TemEmprestimo(emprestimos, saida'.isbn, saida'.aluno_id))
       => saida'.res = "AlreadyHolding"]_vars

\* C2 as amended: an Issue of a pair that already has an open loan is
\* refused, with AlreadyHolding when the book still has an available copy
\* and with NoCopiesAvailable when it has none; nothing is lent.
C2_RepetidoRecusado ==
    [][(/\ saida'.op = "emprestar_livro"
        /\ TemEmprestimo(emprestimos, saida'.isbn, saida'.aluno_id))
       => /\ saida'.isbn \in DOMAIN livros
          /\ saida'.res = (IF livros[saida'.isbn].copias_disponiveis >= 1
                           THEN "AlreadyHolding" ELSE "NoCopiesAvailable")
          /\ emprestimos' = emprestimos
          /\ livros' = livros]_vars

\* the second Issue of a pair is refused with AlreadyHolding
C2_Witness ==
    /\ saida.op = "emprestar_livro"
    /\ saida.res = "AlreadyHolding"
    /\ TemEmprestimo(emprestimos, saida.isbn, saida.aluno_id)

\* C3: a refused Issue reports the first failing check in the order
\* NotFound, BorrowerSuspended, NoCopiesAvailable, AlreadyHolding.
C3_OrdemDasRecusas ==
    [][saida'.op = "emprestar_livro" =>
        LET isbn == saida'.isbn
            aluno_id == saida'.aluno_id
            desconhecido == isbn \notin DOMAIN livros \/ aluno_id \notin DOMAIN alunos
            suspenso == ~desconhecido /\ alunos[aluno_id].banido = "Sim"
            esgotado == ~desconhecido /\ livros[isbn].copias_disponiveis = 0
            repetido == <<isbn, aluno_id>> \in Pares(emprestimos)
        IN  /\ desconhecido => saida'.res = "NotFound"
            /\ ~desconhecido /\ suspenso => saida'.res = "BorrowerSuspended"
            /\ ~desconhecido /\ ~suspenso /\ esgotado
                   => saida'.res = "NoCopiesAvailable"
            /\ ~desconhecido /\ ~suspenso /\ ~esgotado /\ repetido
                   => saida'.res = "AlreadyHolding"]_vars

\* a suspended student asked for a book with no available copy and was told
\* BorrowerSuspended
C3_Witness ==
    /\ saida.op = "emprestar_livro"
    /\ saida.res = "BorrowerSuspended"
    /\ livros[saida.isbn].copias_disponiveis = 0

\* C4: Issue succeeds exactly when book and student exist, the student is
\* active, a copy is available and the pair has no loan; a success takes one
\* copy from copias_disponiveis and adds the pair's loan, and only it.
C4_EmprestimoSseValido ==
    [][saida'.op = "emprestar_livro" =>
        LET isbn == saida'.isbn
            aluno_id == saida'.aluno_id
            valido == /\ isbn \in DOMAIN livros
                      /\ aluno_id \in DOMAIN alunos
                      /\ alunos[aluno_id].banido # "Sim"
                      /\ livros[isbn].copias_disponiveis >= 1
                      /\ <<isbn, aluno_id>> \notin Pares(emprestimos)
        IN  /\ (saida'.res = "ok") <=> valido
            /\ saida'.res = "ok" =>
                  /\ livros'[isbn].copias_disponiveis = livros[isbn].copias_disponiveis - 1
                  /\ Pares(emprestimos') = Pares(emprestimos) \cup {<<isbn, aluno_id>>}
                  /\ Cardinality(Pares(emprestimos')) = Cardinality(Pares(emprestimos)) + 1
            /\ saida'.res # "ok" => Pares(emprestimos') = Pares(emprestimos)]_vars

\* a book added with one copy has just been lent
C4_Witness ==
    /\ Feito("emprestar_livro")
    /\ livros[saida.isbn].total_copias = 1
    /\ livros[saida.isbn].copias_disponiveis = 0
    /\ <<saida.isbn, saida.aluno_id>> \in Pares(emprestimos)

\* the day of the due date of the open loan of (isbn, aluno_id)
DiaDoVencimento(isbn, aluno_id) == strptime(emprestimos[isbn][aluno_id][2]).dia

\* C5: a Return is flagged late exactly when the calendar date of now is
\* after the due date, and then days_overdue is the number of days between
\* the two dates, at least 1; a return on the due date is on time.
C5_AtrasoPorData ==
    [][(saida'.op = "devolver_livro" /\ saida'.res = "ok") =>
        LET vence == DiaDoVencimento(saida'.isbn, saida'.aluno_id)
        IN  /\ saida'.atraso <=> relogio.dia > vence
            /\ saida'.atraso => (saida'.dias = relogio.dia - vence /\ saida'.dias >= 1)]_vars

\* C6: Suspend is refused with NotFound for an unknown student, with
\* HasOpenLoans for a student with an open loan of any book, and otherwise
\* succeeds and leaves the student suspended.
C6_BanirSoSemEmprestimos ==
    [][saida'.op = "banir_aluno" =>
        LET aluno_id == saida'.aluno_id
            aberto == \E p \in Pares(emprestimos) : p[2] = aluno_id
        IN  /\ aluno_id \notin DOMAIN alunos => saida'.res = "NotFound"
            /\ aluno_id \in DOMAIN alunos /\ aberto
                   => (saida'.res = "HasOpenLoans" /\ alunos' = alunos)
            /\ aluno_id \in DOMAIN alunos /\ ~aberto
                   => (saida'.res = "ok" /\ alunos'[aluno_id].banido = "Sim")]_vars

\* a Suspend was refused because the student holds a book
C6_Witness ==
    /\ saida.op = "banir_aluno"
    /\ saida.res = "HasOpenLoans"
    /\ \E p \in Pares(emprestimos) : p[2] = saida.aluno_id

\* C7: no suspended student has an open loan, in every reachable state.
C7_BanidoSemEmprestimo ==
    \A p \in Pares(emprestimos) :
        p[2] \in DOMAIN alunos => alunos[p[2]].banido # "Sim"

\* a student who returned a book is suspended while another loan is open
C7_Witness ==
    /\ Feito("banir_aluno")
    /\ alunos[saida.aluno_id].banido = "Sim"
    /\ Pares(emprestimos) # {}

\* C8: Return is refused with NoSuchLoan exactly when the pair has no loan;
\* otherwise it succeeds, late or not, removes that loan and no other, and
\* adds one to the book's copias_disponiveis.
C8_DevolucaoSseEmprestimo ==
    [][saida'.op = "devolver_livro" =>
        LET isbn == saida'.isbn
            aluno_id == saida'.aluno_id
            par == <<isbn, aluno_id>>
        IN  /\ (saida'.res = "NoSuchLoan") <=> par \notin Pares(emprestimos)
            /\ par \in Pares(emprestimos) =>
                  /\ saida'.res = "ok"
                  /\ Pares(emprestimos') = Pares(emprestimos) \ {par}
                  /\ \A q \in Pares(emprestimos') :
                         emprestimos'[q[1]][q[2]] = emprestimos[q[1]][q[2]]
                  /\ livros'[isbn].copias_disponiveis
                         = livros[isbn].copias_disponiveis + 1]_vars

\* a late return has succeeded while the same book is still lent to another
\* student
C8_Witness ==
    /\ Feito("devolver_livro")
    /\ saida.atraso
    /\ \E p \in Pares(emprestimos) : p[1] = saida.isbn

\* C9: in every reachable state, the dictionaries a load builds from what a
\* save of the state writes are the dictionaries that were saved.
C9_SalvarCarregar ==
    /\ CarregarLivros(ArquivoLivros(livros, livrosFile)) = livros
    /\ CarregarAlunos(ArquivoAlunos(alunos, alunosFile)) = alunos
    /\ CarregarEmprestimos(ArquivoEmprestimos(emprestimos, emprestimosFile)) = emprestimos

\* a session saved and the next one loaded, with books and an empty ledger
C9_Witness ==
    /\ Feito("sair")
    /\ DOMAIN livros # {}
    /\ \E isbn \in DOMAIN livros :
           livros[isbn].copias_disponiveis # livros[isbn].total_copias
    /\ DOMAIN alunos # {}

\* C10: the three files hold the in-memory state whenever a call has
\* returned, so a session started between two calls loads that state.
C10_ArquivosIguaisMemoria ==
    /\ CarregarLivros(livrosFile) = livros
    /\ CarregarAlunos(alunosFile) = alunos
    /\ CarregarEmprestimos(emprestimosFile) = emprestimos

\* the last loan was returned and emprestimos.csv was rewritten without it
C10_Witness ==
    /\ Feito("devolver_livro")
    /\ DOMAIN emprestimos = {}
    /\ emprestimosFile = [existe |-> TRUE, linhas |-> {}]
    /\ livrosFile.existe

\* C11: a save is atomic across the three files: when a session stops
\* inside the save that ends a call, the next session loads either the
\* whole state before the call or the whole state after it.
C11_SalvarAtomico ==
    [][saida'.res = "Interrupted" =>
        LET op == saida'.op
            isbn == saida'.isbn
            aluno_id == saida'.aluno_id
        IN  \/ /\ livros' = livros
               /\ alunos' = alunos
               /\ emprestimos' = emprestimos
            \/ /\ op = "emprestar_livro"
               /\ alunos' = alunos
               /\ livros' = [livros EXCEPT ![isbn].copias_disponiveis = @ - 1]
               /\ Pares(emprestimos') = Pares(emprestimos) \cup {<<isbn, aluno_id>>}
            \/ /\ op = "devolver_livro"
               /\ alunos' = alunos
               /\ livros' = [livros EXCEPT ![isbn].copias_disponiveis = @ + 1]
               /\ Pares(emprestimos') = Pares(emprestimos) \ {<<isbn, aluno_id>>}
            \/ /\ op = "adicionar_livro"
               /\ alunos' = alunos
               /\ emprestimos' = emprestimos
            \/ /\ op \in {"adicionar_aluno", "banir_aluno", "desbanir_aluno"}
               /\ livros' = livros
               /\ emprestimos' = emprestimos]_vars

\* C12: Register of an identifier already in the roster is refused with
\* DuplicateIdentifier and leaves every record as it was, a suspended one
\* included; Register of a new identifier adds an active student.
C12_CadastroUnico ==
    [][saida'.op = "adicionar_aluno" =>
        LET aluno_id == saida'.aluno_id
        IN  /\ aluno_id \in DOMAIN alunos
                   => (saida'.res = "DuplicateIdentifier" /\ alunos' = alunos)
            /\ aluno_id \notin DOMAIN alunos
                   => /\ saida'.res = "ok"
                      /\ DOMAIN alunos' = DOMAIN alunos \cup {aluno_id}
                      /\ alunos'[aluno_id].aluno_id = aluno_id
                      /\ alunos'[aluno_id].nome \in Nomes
                      /\ alunos'[aluno_id].banido = "Não"
                      /\ \A k \in DOMAIN alunos : alunos'[k] = alunos[k]]_vars

\* a suspended student was registered again and is still suspended
C12_Witness ==
    /\ saida.op = "adicionar_aluno"
    /\ saida.res = "DuplicateIdentifier"
    /\ alunos[saida.aluno_id].banido = "Sim"

\* C13: Add-or-restock with copies >= 1 succeeds; for an existing isbn it
\* adds copies to total_copias and to copias_disponiveis and keeps titulo and
\* autor, for a new isbn it creates a record with both counts equal to
\* copies; the copies on loan and the ledger do not change.
C13_AdicionarOuRepor ==
    [][\A o \in Obras, isbn \in ISBNs, copias \in 1..MaxTotal :
        adicionar_livro(o[1], o[2], isbn, copias) =>
            /\ saida'.res = "ok"
            /\ DOMAIN livros' = DOMAIN livros \cup {isbn}
            /\ \A k \in DOMAIN livros \ {isbn} : livros'[k] = livros[k]
            /\ isbn \in DOMAIN livros =>
                  /\ livros'[isbn].total_copias = livros[isbn].total_copias + copias
                  /\ livros'[isbn].copias_disponiveis
                         = livros[isbn].copias_disponiveis + copias
                  /\ livros'[isbn].titulo = livros[isbn].titulo
                  /\ livros'[isbn].autor = livros[isbn].autor
                  /\ livros'[isbn].total_copias - livros'[isbn].copias_disponiveis
                         = livros[isbn].total_copias - livros[isbn].copias_disponiveis
            /\ isbn \notin DOMAIN livros =>
                  livros'[isbn] = [titulo |-> o[1], autor |-> o[2], isbn |-> isbn,
                                   total_copias |-> copias, copias_disponiveis |-> copias]
            /\ emprestimos' = emprestimos]_vars

\* a book with a copy on loan has been restocked
C13_Witness ==
    /\ Feito("adicionar_livro")
    /\ livros[saida.isbn].total_copias > 1
    /\ livros[saida.isbn].copias_disponiveis < livros[saida.isbn].total_copias
    /\ saida.isbn \in DOMAIN emprestimos

\* C14: Reinstate is refused with NotFound for an unknown student and
\* otherwise succeeds and leaves the student active, whatever the student
\* was and holds; on an active student it changes nothing.  From then on an
\* Issue is refused with BorrowerSuspended only for a student who is
\* suspended, and an active student becomes suspended only by a successful
\* Suspend of that student.
C14_DesbanirSempre ==
    [][/\ saida'.op = "desbanir_aluno" =>
            LET aluno_id == saida'.aluno_id
            IN  /\ aluno_id \notin DOMAIN alunos
                       => (saida'.res = "NotFound" /\ alunos' = alunos)
                /\ aluno_id \in DOMAIN alunos
                       => /\ saida'.res = "ok"
                          /\ alunos' = [alunos EXCEPT ![aluno_id].banido = "Não"]
                          /\ alunos[aluno_id].banido = "Não" => alunos' = alunos
       /\ (saida'.op = "emprestar_livro" /\ saida'.res = "BorrowerSuspended")
              => (/\ saida'.aluno_id \in DOMAIN alunos
                  /\ alunos[saida'.aluno_id].banido = "Sim")
       /\ \A a \in DOMAIN alunos \cap DOMAIN alunos' :
              (alunos[a].banido # "Sim" /\ alunos'[a].banido = "Sim")
                  => (saida'.op = "banir_aluno" /\ saida'.aluno_id = a
                      /\ saida'.res = "ok")]_vars

\* a student holding a book has been reinstated
C14_Witness ==
    /\ Feito("desbanir_aluno")
    /\ alunos[saida.aluno_id].banido = "Não"
    /\ \E p \in Pares(emprestimos) : p[2] = saida.aluno_id

\* the status a Return at the instant agora reports for a loan with the
\* dates datas
StatusDaDevolucao(datas, agora) ==
    LET vence == strptime(datas[2])
    IN  [atraso |-> Depois(agora, vence),
         dias |-> IF Depois(agora, vence) THEN DiasEntre(agora, vence) ELSE 0]

\* C15: the report of open loans has exactly one line per open loan, the
\* status of each line is the status a Return of that loan reports at an
\* instant of the listing, and the listing changes no dictionary and no file.
C15_RelatorioComoDevolucao ==
    [][/\ (saida'.op = "listar_emprestimos" /\ saida'.res = "ok") =>
            /\ {<<x.isbn, x.aluno_id>> : x \in saida'.lista} = Pares(emprestimos)
            /\ Cardinality(saida'.lista) = Cardinality(Pares(emprestimos))
            /\ \A x \in saida'.lista :
                   /\ x.vencimento = emprestimos[x.isbn][x.aluno_id][2]
                   /\ \E agora \in {relogio, relogio'} :
                          [atraso |-> x.atraso, dias |-> x.dias]
                              = StatusDaDevolucao(emprestimos[x.isbn][x.aluno_id], agora)
            /\ UNCHANGED <<livros, alunos, emprestimos, livrosFile, alunosFile,
                           emprestimosFile>>
       /\ (saida'.op = "devolver_livro" /\ saida'.res = "ok") =>
            [atraso |-> saida'.atraso, dias |-> saida'.dias]
                = StatusDaDevolucao(emprestimos[saida'.isbn][saida'.aluno_id], relogio)]_vars

\* a report with one loan overdue and another one on time
C15_Witness ==
    /\ Feito("listar_emprestimos")
    /\ \E x \in saida.lista : x.atraso
    /\ \E x \in saida.lista : ~x.atraso
    /\ Cardinality(saida.lista) = Cardinality(Pares(emprestimos))

\* C16: every loan of the ledger is due exactly DIAS_EMPRESTIMO calendar days
\* after its issue date, also when the issue runs across a change of day.
C16_VencimentoSeteDias ==
    \A p \in Pares(emprestimos) :
        LET datas == emprestimos[p[1]][p[2]]
        IN  strptime(datas[2]).dia = strptime(datas[1]).dia + DIAS_EMPRESTIMO

\* C17: the isbn of every open loan is a key of livros and its aluno_id is a
\* key of alunos.
C17_IntegridadeReferencial ==
    \A p \in Pares(emprestimos) : p[1] \in DOMAIN livros /\ p[2] \in DOMAIN alunos

\* two books lent, to two students
C17_Witness ==
    \E p \in Pares(emprestimos), q \in Pares(emprestimos) :
        /\ p[1] # q[1]
        /\ p[2] # q[2]
        /\ {p[1], q[1]} \subseteq DOMAIN livros
        /\ {p[2], q[2]} \subseteq DOMAIN alunos

\* the open loans of one book
EmprestimosDoLivro(isbn) == {p \in Pares(emprestimos) : p[1] = isbn}

\* C19: for every book, copias_disponiveis plus the number of its open loans
\* is total_copias, so that its open loans never exceed total_copias.
C19_ConservacaoDeCopias ==
    \A isbn \in DOMAIN livros :
        /\ livros[isbn].copias_disponiveis + Cardinality(EmprestimosDoLivro(isbn))
               = livros[isbn].total_copias
        /\ Cardinality(EmprestimosDoLivro(isbn)) <= livros[isbn].total_copias

\* a book restocked and returned to: one copy lent, one on the shelf, while
\* another book has every copy lent
C19_Witness ==
    \E isbn \in DOMAIN livros, outro \in DOMAIN livros :
        /\ Cardinality(EmprestimosDoLivro(isbn)) = 1
        /\ livros[isbn].copias_disponiveis = 1
        /\ livros[outro].copias_disponiveis = 0
        /\ Cardinality(EmprestimosDoLivro(outro)) = livros[outro].total_copias

\* the step is the successful call of op on the pair p
FeitoNoPar(op, p) ==
    /\ saida'.op = op
    /\ saida'.res = "ok"
    /\ <<saida'.isbn, saida'.aluno_id>> = p

\* C18: the loan of a pair appears only in a successful emprestar_livro of
\* that pair and disappears only in a successful devolver_livro of that pair;
\* the other operations leave emprestimos unchanged; a successful
\* emprestar_livro or devolver_livro of (b, s) leaves the loans of the other
\* pairs, the other books, the total of b and every student unchanged.
C18_MaquinaDoPar ==
    [][/\ \A p \in ISBNs \X AlunoIds :
              /\ (p \notin Pares(emprestimos) /\ p \in Pares(emprestimos'))
                     => FeitoNoPar("emprestar_livro", p)
              /\ (p \in Pares(emprestimos) /\ p \notin Pares(emprestimos'))
                     => FeitoNoPar("devolver_livro", p)
              /\ FeitoNoPar("emprestar_livro", p)
                     => (p \notin Pares(emprestimos) /\ p \in Pares(emprestimos'))
              /\ FeitoNoPar("devolver_livro", p)
                     => (p \in Pares(emprestimos) /\ p \notin Pares(emprestimos'))
              /\ (p \in Pares(emprestimos) /\ p \in Pares(emprestimos'))
                     => emprestimos'[p[1]][p[2]] = emprestimos[p[1]][p[2]]
       /\ saida'.op \in {"adicionar_livro", "adicionar_aluno", "banir_aluno",
                         "desbanir_aluno", "listar_livros", "listar_alunos",
                         "listar_emprestimos"}
              => emprestimos' = emprestimos
       /\ (saida'.op \in {"emprestar_livro", "devolver_livro"} /\ saida'.res = "ok")
              => LET b == saida'.isbn
                 IN  /\ alunos' = alunos
                     /\ DOMAIN livros' = DOMAIN livros
                     /\ \A i \in DOMAIN livros \ {b} : livros'[i] = livros[i]
                     /\ livros'[b].total_copias = livros[b].total_copias
                     /\ livros'[b].titulo = livros[b].titulo
                     /\ livros'[b].autor = livros[b].autor]_vars

\* a return of one pair while the same book is lent to another student and
\* another book is lent to the same student
C18_Witness ==
    /\ Feito("devolver_livro")
    /\ <<saida.isbn, saida.aluno_id>> \notin Pares(emprestimos)
    /\ \E p \in Pares(emprestimos) : p[1] = saida.isbn /\ p[2] # saida.aluno_id
    /\ \E p \in Pares(emprestimos) : p[1] # saida.isbn /\ p[2] = saida.aluno_id

\* the error kinds of the operations
Recusas ==
    {"DuplicateIdentifier", "NotFound", "HasOpenLoans", "BorrowerSuspended",
     "NoCopiesAvailable", "AlreadyHolding", "NoSuchLoan"}

\* C20: a call of adicionar_aluno, banir_aluno, desbanir_aluno,
\* emprestar_livro or devolver_livro that ends with an error kind leaves
\* livros, alunos, emprestimos and the three files as they were.
C20_RecusaNaoMudaNada ==
    [][(/\ saida'.op \in {"adicionar_aluno", "banir_aluno", "desbanir_aluno",
                          "emprestar_livro", "devolver_livro"}
        /\ saida'.res \in Recusas)
           => UNCHANGED <<livros, alunos, emprestimos, livrosFile, alunosFile,
                          emprestimosFile>>]_vars

\* a ban refused because of an open loan, with the three files written
C20_Witness ==
    /\ saida.op = "banir_aluno"
    /\ saida.res = "HasOpenLoans"
    /\ alunos[saida.aluno_id].banido = "Não"
    /\ livrosFile.existe /\ alunosFile.existe /\ emprestimosFile.linhas # {}

====
